---------------------------- MODULE Spec2Model ----------------------------
(***************************************************************************)
(* Model of the retrieval kernel (backend/rag_utils.py) and of the         *)
(* assessment scorer (backend/profai_engine.py) of the ProfAI backend.     *)
(*                                                                         *)
(* Text is modelled as a sequence of one-character strings, so that        *)
(* lower(), len(), the \w+ tokenizer, substring tests and the ordering of  *)
(* Python strings are computed, not assumed.                               *)
(***************************************************************************)
EXTENDS Integers, Sequences, FiniteSets, TLC

VARIABLES
    chunk_paths,      \* rag: parsed content of the files given to load_all_chunks
    all_chunks,       \* rag: what load_all_chunks returned (or raised)
    query,            \* rag: query of the last find_relevant_chunks call
    top_k,            \* rag: top_k of the last find_relevant_chunks call
    ranked,           \* rag: result of the last find_relevant_chunks call
    boosted,          \* rag: result of the same call on the index with one chunk extended by the query
    callers,          \* rag: the find_relevant_chunks calls running concurrently on all_chunks
    all_questions,    \* scorer: argument all_questions
    n_initial,        \* scorer: how many of all_questions the caller asked as the initial batch
    initial_answers,  \* scorer: argument initial_answers
    adaptive_answers, \* scorer: argument adaptive_answers
    report,           \* scorer: what analyze_full_assessment returned (or raised)
    learning_sessions, \* sessions: the file learning_sessions.json
    now,              \* sessions: datetime.now(), in seconds
    session_call,     \* sessions: the last call of a session method and what it returned
    files,            \* users: the directory entries users.json and users.json.tmp and the files behind them
    procs,            \* users: the create_user calls in progress, one per request thread
    users_before      \* users: what users.json held before the calls

vars == <<chunk_paths, all_chunks, query, top_k, ranked, boosted, callers,
          all_questions, n_initial, initial_answers, adaptive_answers, report,
          learning_sessions, now, session_call, files, procs, users_before>>

ragVars == <<chunk_paths, all_chunks, query, top_k, ranked, boosted, callers>>

sessionVars == <<learning_sessions, now, session_call>>

userVars == <<files, procs, users_before>>

scorerVars == <<all_questions, n_initial, initial_answers, adaptive_answers, report>>

(***************************************************************************)
(* Bounds of the model.                                                    *)
(***************************************************************************)
MaxCorpora == 2

MaxTopK == 3

\* questions per batch when the batch sizes vary freely
MaxInitial == 2

MaxAdaptive == 1

\* adaptive questions behind a full initial batch, single-concept assessments
MaxLong == 6

\* questions of an assessment over the catalogue of four concepts
MaxPathQuestions == 4

\* learning sessions started
MaxStarts == 2

\* times the clock moves on between session calls
MaxTicks == 2

\* chunk files behind the index that concurrent ranking calls share
MaxSharedFiles == 1

\* users in the users file before create_user is called
MaxStoredUsers == 1

(***************************************************************************)
(* Python str: characters, ordering, lower(), tokenizer, substring.        *)
(***************************************************************************)
\* The characters used, in code-point order.
Alphabet ==
    <<" ", ".", "A", "B", "C", "D", "F", "L", "M", "N", "_",
      "a", "b", "c", "d", "e", "f", "g", "h", "i", "j", "k", "l", "m",
      "n", "o", "p", "q", "r", "s", "t", "u", "v", "w", "x", "y", "z">>

Ord(c) == CHOOSE i \in 1..Len(Alphabet) : Alphabet[i] = c

UpperToLower ==
    [c \in {"A", "B", "C", "D", "F", "L", "M", "N"} |->
        CASE c = "A" -> "a" [] c = "B" -> "b" [] c = "C" -> "c" [] c = "D" -> "d"
          [] c = "F" -> "f" [] c = "L" -> "l" [] c = "M" -> "m" [] c = "N" -> "n"]

\* str.lower()
Lower(s) ==
    SubSeq([i \in 1..Len(s) |->
               IF s[i] \in DOMAIN UpperToLower THEN UpperToLower[s[i]] ELSE s[i]],
           1, Len(s))

\* \w of the re module
IsWordChar(c) == c \notin {" ", "."}

\* a < b for Python strings: decided by the first position where they differ,
\* a proper prefix being the smaller
StrLess(a, b) ==
    LET n == IF Len(a) < Len(b) THEN Len(a) ELSE Len(b)
        differ == {i \in 1..n : a[i] # b[i]}
    IN  IF differ = {} THEN Len(a) < Len(b)
        ELSE LET d == CHOOSE i \in differ : \A j \in differ : i <= j
             IN  Ord(a[d]) < Ord(b[d])

\* needle in hay
Contains(hay, needle) ==
    \E i \in 1..(Len(hay) - Len(needle) + 1) :
        SubSeq(hay, i, i + Len(needle) - 1) = needle

RECURSIVE WordEnd(_, _)
WordEnd(s, i) ==
    IF i < Len(s) /\ IsWordChar(s[i + 1]) THEN WordEnd(s, i + 1) ELSE i

\* set(re.findall(r'\w+', s))
WordSet(s) ==
    { SubSeq(s, i, WordEnd(s, i)) :
        i \in { j \in 1..Len(s) : IsWordChar(s[j]) /\ (j = 1 \/ ~IsWordChar(s[j - 1])) } }

RECURSIVE Rep(_, _)
Rep(s, n) == IF n = 0 THEN <<>> ELSE s \o Rep(s, n - 1)

(***************************************************************************)
(* Parsed JSON values (what json.load returns).                            *)
(***************************************************************************)
JStr(s) == [kind |-> "string", str |-> s, keys |-> <<>>, items |-> <<>>]

JNum == [kind |-> "number", str |-> <<>>, keys |-> <<>>, items |-> <<>>]

JArr(xs) == [kind |-> "array", str |-> <<>>, keys |-> <<>>, items |-> xs]

\* a JSON object: keys[i] maps to items[i], in document order
JObj(ks, xs) == [kind |-> "object", str |-> <<>>, keys |-> ks, items |-> xs]

(***************************************************************************)
(* load_all_chunks.  The merged index is a Python dict, which iterates in  *)
(* insertion order: a sequence of entries [fname, chunks].                 *)
(***************************************************************************)
K_file == <<"f", "i", "l", "e">>

K_chunk == <<"c", "h", "u", "n", "k">>

HasKey(obj, k) == \E i \in 1..Len(obj.keys) : obj.keys[i] = k

\* obj[k] of a dict that has the key
GetItem(obj, k) == obj.items[CHOOSE i \in 1..Len(obj.keys) : obj.keys[i] = k]

IndexOfKey(idx, fname) ==
    IF \E i \in 1..Len(idx) : idx[i].fname = fname
    THEN CHOOSE i \in 1..Len(idx) : idx[i].fname = fname
    ELSE 0

\* the slip all_chunks[fname] = more: a later corpus replaces the source's chunks
SetDefaultExtend_Overwrite(idx, fname, more) ==
    LET i == IndexOfKey(idx, fname) IN
    IF i = 0 THEN Append(idx, [fname |-> fname, chunks |-> more])
    ELSE [idx EXCEPT ![i].chunks = more]

\* all_chunks.setdefault(fname, []).extend(more); append(x) is the case more = <<x>>
SetDefaultExtend(idx, fname, more) ==
    LET i == IndexOfKey(idx, fname) IN
    IF i = 0 THEN Append(idx, [fname |-> fname, chunks |-> more])
    ELSE [idx EXCEPT ![i].chunks = @ \o more]

\* what list.extend(v) iterates over, for the values that are iterable
IterItems(v) ==
    CASE v.kind = "array"  -> v.items
      [] v.kind = "string" -> [i \in 1..Len(v.str) |-> JStr(<<v.str[i]>>)]
      [] v.kind = "object" -> [i \in 1..Len(v.keys) |-> JStr(v.keys[i])]

Raised(e) == [status |-> e, index |-> <<>>]

Loaded(idx) == [status |-> "ok", index |-> idx]

\* lines 14-17: the records of a list-shaped corpus, from record i on
RECURSIVE LoadRecords(_, _, _)
LoadRecords(idx, entries, i) ==
    IF i > Len(entries) THEN Loaded(idx)
    ELSE LET entry == entries[i] IN
         IF entry.kind # "object" THEN Raised("TypeError")
         ELSE IF ~HasKey(entry, K_file) \/ ~HasKey(entry, K_chunk) THEN Raised("KeyError")
         ELSE IF GetItem(entry, K_file).kind \in {"array", "object"} THEN Raised("TypeError")
         ELSE LoadRecords(SetDefaultExtend(idx, GetItem(entry, K_file),
                                           <<GetItem(entry, K_chunk)>>),
                          entries, i + 1)

\* lines 19-20: the items of a dict-shaped corpus, from item i on
RECURSIVE LoadItems(_, _, _)
LoadItems(idx, corpus, i) ==
    IF i > Len(corpus.keys) THEN Loaded(idx)
    ELSE IF corpus.items[i].kind = "number" THEN Raised("TypeError")
    ELSE LoadItems(SetDefaultExtend(idx, JStr(corpus.keys[i]), IterItems(corpus.items[i])),
                   corpus, i + 1)

\* lines 13-20: one corpus merged into the index
LoadCorpus(idx, corpus) ==
    IF corpus.kind = "array" THEN LoadRecords(idx, corpus.items, 1)
    ELSE IF corpus.kind = "object" THEN LoadItems(idx, corpus, 1)
    ELSE Raised("AttributeError")

RECURSIVE LoadFrom(_, _, _)
LoadFrom(idx, paths, p) ==
    IF p > Len(paths) THEN Loaded(idx)
    ELSE LET r == LoadCorpus(idx, paths[p]) IN
         IF r.status # "ok" THEN r ELSE LoadFrom(r.index, paths, p + 1)

load_all_chunks(paths) == LoadFrom(<<>>, paths, 1)

NotLoaded == [status |-> "none", index |-> <<>>]

(***************************************************************************)
(* find_relevant_chunks.                                                   *)
(***************************************************************************)
\* lines 37-43.  Each pattern is \b(?:a|b|...)\b; its alternatives are listed in
\* the order the regex engine tries them ("neural networks?" is greedy: with the
\* s first, then without).
technical_patterns ==
    <<<<<<"n", "e", "u", "r", "a", "l", " ", "n", "e", "t", "w", "o", "r", "k", "s">>,
        <<"n", "e", "u", "r", "a", "l", " ", "n", "e", "t", "w", "o", "r", "k">>,
        <<"m", "a", "c", "h", "i", "n", "e", " ", "l", "e", "a", "r", "n", "i", "n", "g">>,
        <<"d", "e", "e", "p", " ", "l", "e", "a", "r", "n", "i", "n", "g">>,
        <<"c", "l", "a", "s", "s", "i", "f", "i", "c", "a", "t", "i", "o", "n">>,
        <<"r", "e", "g", "r", "e", "s", "s", "i", "o", "n">>>>,
      <<<<"g", "r", "a", "d", "i", "e", "n", "t", " ", "d", "e", "s", "c", "e", "n", "t">>,
        <<"o", "p", "t", "i", "m", "i", "z", "a", "t", "i", "o", "n">>,
        <<"c", "o", "n", "v", "e", "x">>,
        <<"l", "i", "n", "e", "a", "r", " ", "a", "l", "g", "e", "b", "r", "a">>,
        <<"c", "a", "l", "c", "u", "l", "u", "s">>>>,
      <<<<"s", "t", "a", "t", "i", "s", "t", "i", "c", "s">>,
        <<"p", "r", "o", "b", "a", "b", "i", "l", "i", "t", "y">>,
        <<"b", "a", "y", "e", "s", "i", "a", "n">>,
        <<"r", "i", "s", "k">>,
        <<"l", "o", "s", "s", " ", "f", "u", "n", "c", "t", "i", "o", "n">>>>,
      <<<<"s", "v", "m">>,
        <<"s", "u", "p", "p", "o", "r", "t", " ", "v", "e", "c", "t", "o", "r">>,
        <<"b", "o", "o", "s", "t", "i", "n", "g">>,
        <<"e", "n", "s", "e", "m", "b", "l", "e">>,
        <<"r", "a", "n", "d", "o", "m", " ", "f", "o", "r", "e", "s", "t">>>>,
      <<<<"c", "l", "u", "s", "t", "e", "r", "i", "n", "g">>,
        <<"d", "i", "m", "e", "n", "s", "i", "o", "n", "a", "l", "i", "t", "y">>,
        <<"f", "e", "a", "t", "u", "r", "e">>,
        <<"s", "u", "p", "e", "r", "v", "i", "s", "e", "d">>,
        <<"u", "n", "s", "u", "p", "e", "r", "v", "i", "s", "e", "d">>>>>>

\* line 66
key_concepts ==
    <<<<"l", "e", "a", "r", "n", "i", "n", "g">>,
      <<"a", "l", "g", "o", "r", "i", "t", "h", "m">>,
      <<"m", "o", "d", "e", "l">>,
      <<"t", "r", "a", "i", "n", "i", "n", "g">>,
      <<"p", "r", "e", "d", "i", "c", "t", "i", "o", "n">>,
      <<"e", "r", "r", "o", "r">>,
      <<"o", "p", "t", "i", "m", "i", "z", "a", "t", "i", "o", "n">>>>

\* \b between s[p-1] and s[p]
WordBoundary(s, p) ==
    (p > 1 /\ IsWordChar(s[p - 1])) # (p <= Len(s) /\ IsWordChar(s[p]))

\* the alternative of pattern pat that matches at position p (0: none does)
MatchAt(s, pat, p) ==
    LET ok(a) == /\ p + Len(pat[a]) - 1 <= Len(s)
                 /\ SubSeq(s, p, p + Len(pat[a]) - 1) = pat[a]
                 /\ WordBoundary(s, p + Len(pat[a]))
    IN  IF WordBoundary(s, p) /\ \E a \in 1..Len(pat) : ok(a)
        THEN CHOOSE a \in 1..Len(pat) : ok(a) /\ \A b \in 1..(a - 1) : ~ok(b)
        ELSE 0

\* re.findall(pattern, s), scanning from position p
RECURSIVE FindAll(_, _, _)
FindAll(s, pat, p) ==
    IF p > Len(s) THEN <<>>
    ELSE LET a == MatchAt(s, pat, p) IN
         IF a = 0 THEN FindAll(s, pat, p + 1)
         ELSE <<pat[a]>> \o FindAll(s, pat, p + Len(pat[a]))

\* lines 45-47
RECURSIVE ImportantTerms(_, _)
ImportantTerms(query_lower, i) ==
    IF i > Len(technical_patterns) THEN <<>>
    ELSE FindAll(query_lower, technical_patterns[i], 1) \o ImportantTerms(query_lower, i + 1)

\* ScoreX200 with the length factor min(1.0, 200 / len(chunk))
ScoreX200_InverseLength(query_lower, query_words, important_terms, chunk) ==
    LET chunk_lower == Lower(chunk)
        word_overlap_score == Cardinality(query_words \cap WordSet(chunk_lower))
        phrase_bonus ==
            5 * Cardinality({i \in 1..Len(important_terms) :
                                Contains(chunk_lower, important_terms[i])})
        concept_bonus ==
            2 * Cardinality({i \in 1..Len(key_concepts) :
                                /\ Contains(query_lower, key_concepts[i])
                                /\ Contains(chunk_lower, key_concepts[i])})
        length_x200 == IF Len(chunk) <= 200 THEN 200 ELSE (200 * 200) \div Len(chunk)
    IN  (word_overlap_score + phrase_bonus + concept_bonus) * length_x200

\* ScoreX200 with the concept bonus given for a keyword of the chunk alone
ScoreX200_ChunkKeywords(query_lower, query_words, important_terms, chunk) ==
    LET chunk_lower == Lower(chunk)
        word_overlap_score == Cardinality(query_words \cap WordSet(chunk_lower))
        phrase_bonus ==
            5 * Cardinality({i \in 1..Len(important_terms) :
                                Contains(chunk_lower, important_terms[i])})
        concept_bonus ==
            2 * Cardinality({i \in 1..Len(key_concepts) :
                                Contains(chunk_lower, key_concepts[i])})
        length_x200 == IF Len(chunk) < 200 THEN Len(chunk) ELSE 200
    IN  (word_overlap_score + phrase_bonus + concept_bonus) * length_x200

\* lines 52-74: final_score of one chunk, in units of 1/200 (the code computes
\* (overlap + phrase_bonus + concept_bonus) * min(1.0, len(chunk) / 200) in floats)
ScoreX200(query_lower, query_words, important_terms, chunk) ==
    LET chunk_lower == Lower(chunk)
        word_overlap_score == Cardinality(query_words \cap WordSet(chunk_lower))
        phrase_bonus ==
            5 * Cardinality({i \in 1..Len(important_terms) :
                                Contains(chunk_lower, important_terms[i])})
        concept_bonus ==
            2 * Cardinality({i \in 1..Len(key_concepts) :
                                /\ Contains(query_lower, key_concepts[i])
                                /\ Contains(chunk_lower, key_concepts[i])})
        length_x200 == IF Len(chunk) < 200 THEN Len(chunk) ELSE 200
    IN  (word_overlap_score + phrase_bonus + concept_bonus) * length_x200

\* lines 50-51: the (fname, chunk) pairs of the index in iteration order
RECURSIVE CorpusOrder(_, _)
CorpusOrder(idx, i) ==
    IF i > Len(idx) THEN <<>>
    ELSE [j \in 1..Len(idx[i].chunks) |->
            [fname |-> idx[i].fname.str, chunk |-> idx[i].chunks[j].str]]
         \o CorpusOrder(idx, i + 1)

\* scored_chunks keeping the chunks of score zero as well
RECURSIVE ScoredChunks_KeepZero(_, _, _, _, _)
ScoredChunks_KeepZero(query_lower, query_words, important_terms, pairs, i) ==
    IF i > Len(pairs) THEN <<>>
    ELSE LET sc == ScoreX200(query_lower, query_words, important_terms, pairs[i].chunk) IN
         (IF sc >= 0 THEN <<[score |-> sc, fname |-> pairs[i].fname, chunk |-> pairs[i].chunk]>>
          ELSE <<>>)
         \o ScoredChunks_KeepZero(query_lower, query_words, important_terms, pairs, i + 1)

\* lines 49-77: scored_chunks before the sort
RECURSIVE ScoredChunks(_, _, _, _, _)
ScoredChunks(query_lower, query_words, important_terms, pairs, i) ==
    IF i > Len(pairs) THEN <<>>
    ELSE LET sc == ScoreX200(query_lower, query_words, important_terms, pairs[i].chunk) IN
         (IF sc > 0 THEN <<[score |-> sc, fname |-> pairs[i].fname, chunk |-> pairs[i].chunk]>>
          ELSE <<>>)
         \o ScoredChunks(query_lower, query_words, important_terms, pairs, i + 1)

\* a < b for the tuples (final_score, fname, chunk)
TupleLess(a, b) ==
    \/ a.score < b.score
    \/ a.score = b.score /\ StrLess(a.fname, b.fname)
    \/ a.score = b.score /\ a.fname = b.fname /\ StrLess(a.chunk, b.chunk)

\* x put into an ascending list instead
RECURSIVE InsertDescending_Ascending(_, _)
InsertDescending_Ascending(sorted, x) ==
    IF sorted = <<>> THEN <<x>>
    ELSE IF TupleLess(x, Head(sorted)) THEN <<x>> \o sorted
    ELSE <<Head(sorted)>> \o InsertDescending_Ascending(Tail(sorted), x)

\* x put into a descending list behind every element that is not less than x
RECURSIVE InsertDescending(_, _)
InsertDescending(sorted, x) ==
    IF sorted = <<>> THEN <<x>>
    ELSE IF TupleLess(Head(sorted), x) THEN <<x>> \o sorted
    ELSE <<Head(sorted)>> \o InsertDescending(Tail(sorted), x)

\* line 80: scored_chunks.sort(reverse=True), elements 1..n of xs sorted
RECURSIVE SortReverse(_, _)
SortReverse(xs, n) ==
    IF n = 0 THEN <<>> ELSE InsertDescending(SortReverse(xs, n - 1), xs[n])

\* xs[:k + 1]
Take_OneMore(xs, k) == SubSeq(xs, 1, IF k + 1 < Len(xs) THEN k + 1 ELSE Len(xs))

\* xs[:k]
Take(xs, k) == SubSeq(xs, 1, IF k < Len(xs) THEN k ELSE Len(xs))

Pairs(xs) == [i \in 1..Len(xs) |-> <<xs[i].fname, xs[i].chunk>>]

\* lines 29-81: scored is scored_chunks after the sort of line 80, pairs the
\* return value of line 81
find_relevant_chunks(q, idx, k) ==
    LET query_lower == Lower(q)
        scored_chunks == ScoredChunks(query_lower, WordSet(query_lower),
                                      ImportantTerms(query_lower, 1), CorpusOrder(idx, 1), 1)
        sorted == SortReverse(scored_chunks, Len(scored_chunks))
    IN  [done |-> TRUE, scored |-> sorted, pairs |-> Pairs(Take(sorted, k))]

\* the index is a Dict[str, List[str]], as the signature of line 29 asks
WellTyped(idx) ==
    \A i \in 1..Len(idx) :
        /\ idx[i].fname.kind = "string"
        /\ \A j \in 1..Len(idx[i].chunks) : idx[i].chunks[j].kind = "string"

(***************************************************************************)
(* analyze_full_assessment.                                                *)
(***************************************************************************)
\* the literal 5 of lines 516 and 533: the size of the initial batch
InitialBatch == 5

\* the literal 10 of line 533: the questions analysed at most
AssessmentSize == 10

\* Python values that are a str or None
None == [none |-> TRUE, str |-> <<>>]

Str(s) == [none |-> FALSE, str |-> s]

\* str(i)
StrOfInt(i) == <<"0", "1", "2", "3", "4", "5", "6", "7", "8", "9", "10", "11", "12">>[i + 1]

\* answers.get(key)
AnswerGet(answers, key) == IF key \in DOMAIN answers THEN Str(answers[key]) ELSE None

S_unknown == <<"u", "n", "k", "n", "o", "w", "n">>

\* question.get('concept', 'unknown')
ConceptOrUnknown(question) ==
    IF question.concept.none THEN S_unknown ELSE question.concept.str

\* v in list, for a list of str
InList(v, list) == ~v.none /\ \E i \in 1..Len(list) : list[i] = v.str

\* Counted with the two counters mixed up
Counted_Swapped(perf, concept, correct) ==
    LET old == IF concept \in DOMAIN perf THEN perf[concept]
               ELSE [attempted |-> 0, correct |-> 0]
        new == [attempted |-> old.attempted + (IF correct THEN 1 ELSE 0),
                correct |-> old.correct + 1]
    IN  [c \in DOMAIN perf \cup {concept} |-> IF c = concept THEN new ELSE perf[c]]

\* concept_performance with one more answer counted for the concept
Counted(perf, concept, correct) ==
    LET old == IF concept \in DOMAIN perf THEN perf[concept]
               ELSE [attempted |-> 0, correct |-> 0]
        new == [attempted |-> old.attempted + 1,
                correct |-> old.correct + (IF correct THEN 1 ELSE 0)]
    IN  [c \in DOMAIN perf \cup {concept} |-> IF c = concept THEN new ELSE perf[c]]

\* lines 517-530: question i (0-based) of the first loop
InitialStep(acc, question, user_answer) ==
    LET correct == user_answer = question.correct
        concept == ConceptOrUnknown(question)
    IN  [total_correct |-> acc.total_correct + (IF correct THEN 1 ELSE 0),
         strong_areas |-> IF correct THEN Append(acc.strong_areas, concept)
                          ELSE acc.strong_areas,
         knowledge_gaps |-> IF correct THEN acc.knowledge_gaps
                            ELSE Append(acc.knowledge_gaps, concept),
         concept_performance |-> Counted(acc.concept_performance, concept, correct)]

\* lines 534-550: question i (0-based) of the second loop
AdaptiveStep(acc, question, user_answer) ==
    LET correct == user_answer = question.correct
        concept == ConceptOrUnknown(question)
    IN  [total_correct |-> acc.total_correct + (IF correct THEN 1 ELSE 0),
         strong_areas |-> IF correct /\ ~InList(question.concept, acc.strong_areas)
                          THEN Append(acc.strong_areas, concept)
                          ELSE acc.strong_areas,
         knowledge_gaps |-> IF ~correct /\ ~InList(question.concept, acc.knowledge_gaps)
                            THEN Append(acc.knowledge_gaps, concept)
                            ELSE acc.knowledge_gaps,
         concept_performance |-> Counted(acc.concept_performance, concept, correct)]

Min(a, b) == IF a < b THEN a ELSE b

\* lines 516-550: both loops, from question i (0-based) on
RECURSIVE Loops(_, _, _, _, _)
Loops(acc, questions, ia, aa, i) ==
    IF i < Min(InitialBatch, Len(questions))
    THEN Loops(InitialStep(acc, questions[i + 1], AnswerGet(ia, StrOfInt(i))),
               questions, ia, aa, i + 1)
    ELSE IF InitialBatch <= i /\ i < Min(AssessmentSize, Len(questions))
    THEN Loops(AdaptiveStep(acc, questions[i + 1], AnswerGet(aa, StrOfInt(i - InitialBatch))),
               questions, ia, aa, i + 1)
    ELSE acc

(***************************************************************************)
(* _generate_learning_path and _recommend_lessons.                         *)
(***************************************************************************)
S_fundamentals == <<"f", "u", "n", "d", "a", "m", "e", "n", "t", "a", "l", "s">>

S_fundamental == <<"f", "u", "n", "d", "a", "m", "e", "n", "t", "a", "l">>

\* the sort key of line 569 as the fraction correct / max(attempted, 1)
Ratio(performance, x) ==
    IF x \in DOMAIN performance
    THEN [num |-> performance[x].correct,
          den |-> IF performance[x].attempted > 1 THEN performance[x].attempted ELSE 1]
    ELSE [num |-> 0, den |-> 1]

\* the slip of sorting best-performing first
RatioLess_Reversed(a, b) == b.num * a.den < a.num * b.den

RatioLess(a, b) == a.num * b.den < b.num * a.den

\* x put into an ascending list behind every element whose key is not greater
RECURSIVE InsertAscending(_, _, _)
InsertAscending(sorted, x, performance) ==
    IF sorted = <<>> THEN <<x>>
    ELSE IF RatioLess(Ratio(performance, x), Ratio(performance, Head(sorted)))
    THEN <<x>> \o sorted
    ELSE <<Head(sorted)>> \o InsertAscending(Tail(sorted), x, performance)

\* line 569: sorted(gaps, key=...), elements 1..n of gaps sorted
RECURSIVE SortedGaps(_, _, _)
SortedGaps(gaps, n, performance) ==
    IF n = 0 THEN <<>>
    ELSE InsertAscending(SortedGaps(gaps, n - 1, performance), gaps[n], performance)

\* line 573: 'fundamentals' in [gap.lower() for gap in sorted_gaps]
HasFundamentals(sorted_gaps) ==
    \E i \in 1..Len(sorted_gaps) : Lower(sorted_gaps[i]) = S_fundamentals

\* generate_learning_path testing 'gap not in learning_path' while the path grows
generate_learning_path_Growing(gaps, strengths, performance) ==
    LET sorted_gaps == SortedGaps(gaps, Len(gaps), performance)
        IsFundamental(gap) == Contains(Lower(gap), S_fundamental)
        first == IF HasFundamentals(sorted_gaps) THEN SelectSeq(sorted_gaps, IsFundamental)
                 ELSE <<>>
        NotYet(i) == /\ \A j \in 1..Len(first) : first[j] # sorted_gaps[i]
                     /\ \A j \in 1..(i - 1) : sorted_gaps[j] # sorted_gaps[i]
        kept == SelectSeq([i \in 1..Len(sorted_gaps) |-> i], NotYet)
    IN  first \o [n \in 1..Len(kept) |-> sorted_gaps[kept[n]]]

generate_learning_path(gaps, strengths, performance) ==
    LET sorted_gaps == SortedGaps(gaps, Len(gaps), performance)
        IsFundamental(gap) == Contains(Lower(gap), S_fundamental)
        first == IF HasFundamentals(sorted_gaps) THEN SelectSeq(sorted_gaps, IsFundamental)
                 ELSE <<>>
        NotYet(gap) == \A i \in 1..Len(first) : first[i] # gap
    IN  first \o SelectSeq(sorted_gaps, NotYet)

L_review == <<"F", "u", "n", "d", "a", "m", "e", "n", "t", "a", "l", "s", " ", "R", "e", "v", "i", "e", "w">>

L_deep_dive == <<"D", "e", "e", "p", " ", "D", "i", "v", "e", ":", " ">>

L_advanced == <<"A", "d", "v", "a", "n", "c", "e", "d", " ", "A", "p", "p", "l", "i", "c", "a", "t", "i", "o", "n", "s">>

\* recommend_lessons with the advanced lesson from a score of 7 on
recommend_lessons_FromSeven(gaps, score) ==
    (IF score.num < 3 * score.den THEN <<L_review>> ELSE <<>>)
    \o [i \in 1..Len(gaps) |-> L_deep_dive \o gaps[i]]
    \o (IF score.num >= 7 * score.den THEN <<L_advanced>> ELSE <<>>)

\* score is the fraction num / den
recommend_lessons(gaps, score) ==
    (IF score.num < 3 * score.den THEN <<L_review>> ELSE <<>>)
    \o [i \in 1..Len(gaps) |-> L_deep_dive \o gaps[i]]
    \o (IF score.num > 7 * score.den THEN <<L_advanced>> ELSE <<>>)

ReportRaised(e) ==
    [status |-> e, overall_score |-> [num |-> 0, den |-> 1], knowledge_gaps |-> <<>>,
     strong_areas |-> <<>>, concept_performance |-> <<>>, learning_path |-> <<>>,
     recommended_lessons |-> <<>>, total_correct |-> 0, total_questions |-> 0]

NoReport == ReportRaised("none")

\* lines 509-564.  overall_score (total_correct / total_questions) * 10 is kept as
\* the fraction 10 * total_correct / total_questions; total_correct and
\* total_questions are the locals of that name.
analyze_full_assessment(ia, aa, questions) ==
    LET acc == Loops([total_correct |-> 0, strong_areas |-> <<>>, knowledge_gaps |-> <<>>,
                      concept_performance |-> <<>>], questions, ia, aa, 0)
        total_questions == Len(questions)
        overall_score == [num |-> 10 * acc.total_correct, den |-> total_questions]
    IN  IF total_questions = 0 THEN ReportRaised("ZeroDivisionError")
        ELSE [status |-> "ok",
              overall_score |-> overall_score,
              knowledge_gaps |-> acc.knowledge_gaps,
              strong_areas |-> acc.strong_areas,
              concept_performance |-> acc.concept_performance,
              learning_path |-> generate_learning_path(acc.knowledge_gaps, acc.strong_areas,
                                                        acc.concept_performance),
              recommended_lessons |-> recommend_lessons(acc.knowledge_gaps, overall_score),
              total_correct |-> acc.total_correct,
              total_questions |-> total_questions]

(***************************************************************************)
(* The corpora, chunk texts and queries the model draws its inputs from.   *)
(***************************************************************************)
F_a ==
    <<"a", ".", "p", "d", "f">>

F_b ==
    <<"b", ".", "p", "d", "f">>

T_learn ==
    <<"n", "e", "u", "r", "a", "l", " ", "n", "e", "t", "w", "o", "r", "k",
      "s", " ", "l", "e", "a", "r", "n">>

T_train ==
    <<"n", "e", "u", "r", "a", "l", " ", "n", "e", "t", "w", "o", "r", "k",
      "s", " ", "t", "r", "a", "i", "n">>

T_info ==
    <<"n", "e", "u", "r", "a", "l", " ", "n", "e", "t", "w", "o", "r", "k",
      "s", " ", "p", "r", "o", "c", "e", "s", "s", " ", "i", "n", "f", "o",
      "r", "m", "a", "t", "i", "o", "n">>

T_cook ==
    <<"u", "n", "r", "e", "l", "a", "t", "e", "d", " ", "t", "e", "x", "t",
      " ", "a", "b", "o", "u", "t", " ", "c", "o", "o", "k", "i", "n", "g">>

Q_neural ==
    <<"n", "e", "u", "r", "a", "l", " ", "n", "e", "t", "w", "o", "r", "k",
      "s">>

Q_deep ==
    <<"D", "e", "e", "p", " ", "L", "e", "a", "r", "n", "i", "n", "g", " ",
      "m", "o", "d", "e", "l">>

Q_cook ==
    <<"c", "o", "o", "k", "i", "n", "g">>

\* a query naming two technical phrases and a generic keyword
Q_mixed ==
    <<"n", "e", "u", "r", "a", "l", " ", "n", "e", "t", "w", "o", "r", "k", "s", " ",
      "d", "e", "e", "p", " ", "l", "e", "a", "r", "n", "i", "n", "g", " ",
      "m", "o", "d", "e", "l">>

\* a query without a word token
Q_blank ==
    <<" ", ".">>

T_long == Rep(<<"d", "e", "e", "p", " ", "l", "e", "a", "r", "n", "i", "n", "g", " ",
                "m", "o", "d", "e", "l", " ">>, 11)

Record(f, c) == JObj(<<K_file, K_chunk>>, <<f, c>>)

\* corpora in one of the two supported shapes
GoodCorpora ==
    << JObj(<<F_a>>, <<JArr(<<JStr(T_learn), JStr(T_train)>>)>>),
       JObj(<<F_b, F_a>>, <<JArr(<<JStr(T_cook)>>), JArr(<<JStr(T_learn)>>)>>),
       JArr(<<Record(JStr(F_b), JStr(T_long)), Record(JStr(F_a), JStr(T_info)),
              Record(JStr(F_b), JStr(T_cook))>>),
       JArr(<<Record(JStr(F_a), JStr(T_train))>>) >>

\* corpora in neither shape
BadCorpora ==
    << JNum,
       JObj(<<F_a>>, <<JStr(F_b)>>),
       JArr(<<JObj(<<K_file>>, <<JStr(F_a)>>)>>),
       JArr(<<JStr(T_cook)>>),
       JObj(<<F_a>>, <<JNum>>),
       JArr(<<Record(JStr(F_a), JNum)>>) >>

Corpora == GoodCorpora \o BadCorpora

Queries == <<Q_neural, Q_deep, Q_cook, <<>>, Q_mixed, Q_blank>>

NoRanking == [done |-> FALSE, scored |-> <<>>, pairs |-> <<>>]

NoBoost == [done |-> FALSE, source |-> 0, chunk |-> 0, spaced |-> FALSE,
            scored |-> <<>>, pairs |-> <<>>]

\* the index with chunk j of source i extended by the text tail
Extended(idx, i, j, tail) ==
    [idx EXCEPT ![i].chunks[j] = JStr(idx[i].chunks[j].str \o tail)]

\* learning_sessions.json does not exist
NoSessionsFile == [exists |-> FALSE, sessions |-> <<>>]

\* no session method was called yet
NoCall == [op |-> "none", arg |-> <<>>, id |-> <<>>, minutes |-> 0, active |-> <<>>]

SessionsIdle ==
    /\ learning_sessions = NoSessionsFile
    /\ now = 0
    /\ session_call = NoCall

\* neither users.json nor users.json.tmp exists
NoFiles == [target |-> 0, tmp |-> 0, content |-> <<>>]

UsersIdle ==
    /\ files = NoFiles
    /\ procs = <<>>
    /\ users_before = <<>>

ScorerIdle ==
    /\ all_questions = <<>>
    /\ n_initial = 0
    /\ initial_answers = <<>>
    /\ adaptive_answers = <<>>
    /\ report = NoReport

(***************************************************************************)
(* The retrieval component as a state machine.                             *)
(***************************************************************************)
InitRag ==
    /\ \E n \in 0..MaxCorpora :
         \E pick \in [1..n -> 1..Len(Corpora)] :
            chunk_paths = [i \in 1..n |-> Corpora[pick[i]]]
    /\ all_chunks = NotLoaded
    /\ query = <<>>
    /\ top_k = 0
    /\ ranked = NoRanking
    /\ boosted = NoBoost
    /\ callers = <<>>
    /\ ScorerIdle
    /\ SessionsIdle
    /\ UsersIdle

\* chunks = load_all_chunks(chunk_files)
Load ==
    /\ all_chunks = NotLoaded
    /\ all_chunks' = load_all_chunks(chunk_paths)
    /\ UNCHANGED <<chunk_paths, query, top_k, ranked, boosted, callers>>
    /\ UNCHANGED <<scorerVars, sessionVars, userVars>>

\* find_relevant_chunks(query, chunks, top_k) on the loaded index; the function
\* keeps no state, so one call per run shows all it can do
Rank ==
    /\ all_chunks.status = "ok"
    /\ ranked = NoRanking
    /\ WellTyped(all_chunks.index)
    /\ \E q \in 1..Len(Queries), k \in 0..MaxTopK :
         /\ query' = Queries[q]
         /\ top_k' = k
         /\ ranked' = find_relevant_chunks(Queries[q], all_chunks.index, k)
    /\ UNCHANGED <<chunk_paths, all_chunks, boosted, callers>>
    /\ UNCHANGED <<scorerVars, sessionVars, userVars>>

\* find_relevant_chunks(query, chunks, top_k) once more, with the same query and
\* top_k, on the index in which one chunk has the query text appended, either
\* directly (chunk + query) or behind a space (chunk + " " + query)
Rerank ==
    /\ ranked.done
    /\ ~boosted.done
    /\ \E i \in 1..Len(all_chunks.index) :
         \E j \in 1..Len(all_chunks.index[i].chunks), spaced \in BOOLEAN :
            LET tail == (IF spaced THEN <<" ">> ELSE <<>>) \o query
                again == find_relevant_chunks(
                             query, Extended(all_chunks.index, i, j, tail), top_k)
            IN  boosted' = [done |-> TRUE, source |-> i, chunk |-> j, spaced |-> spaced,
                            scored |-> again.scored, pairs |-> again.pairs]
    /\ UNCHANGED <<chunk_paths, all_chunks, query, top_k, ranked, callers>>
    /\ UNCHANGED <<scorerVars, sessionVars, userVars>>

NextRag == Load \/ Rank

SpecRag == InitRag /\ [][NextRag]_vars

(***************************************************************************)
(* Ranking twice: the index as loaded, then with one chunk extended by the *)
(* query text.                                                             *)
(***************************************************************************)
BoostCorpora == SubSeq(GoodCorpora, 1, 3)

InitBoost ==
    /\ \E n \in 0..MaxCorpora :
         \E pick \in [1..n -> 1..Len(BoostCorpora)] :
            chunk_paths = [i \in 1..n |-> BoostCorpora[pick[i]]]
    /\ all_chunks = NotLoaded
    /\ query = <<>>
    /\ top_k = 0
    /\ ranked = NoRanking
    /\ boosted = NoBoost
    /\ callers = <<>>
    /\ ScorerIdle
    /\ SessionsIdle
    /\ UsersIdle

NextBoost == Load \/ Rank \/ Rerank

SpecBoost == InitBoost /\ [][NextBoost]_vars

(***************************************************************************)
(* The scorer as a state machine: an assessment is drawn, then analysed.   *)
(***************************************************************************)
C_basics == <<"b", "a", "s", "i", "c", "s">>

C_advanced == <<"a", "d", "v", "a", "n", "c", "e", "d">>

C_Fundamentals == <<"F", "u", "n", "d", "a", "m", "e", "n", "t", "a", "l", "s">>

C_ml_fundamentals == <<"M", "L", " ", "f", "u", "n", "d", "a", "m", "e", "n", "t", "a", "l", "s">>

Question(concept, correct) == [concept |-> Str(concept), correct |-> Str(correct)]

Letters == {<<"A">>, <<"B">>}

QuestionsOne == <<Question(C_basics, <<"A">>)>>

QuestionsTwo == <<Question(C_basics, <<"A">>), Question(C_advanced, <<"B">>)>>

QuestionsFour ==
    <<Question(C_basics, <<"A">>), Question(C_advanced, <<"B">>),
      Question(C_Fundamentals, <<"A">>), Question(C_ml_fundamentals, <<"B">>)>>

\* questions that lack a key: the first has no 'concept', the second no 'correct'
QuestionsPartial ==
    <<[concept |-> None, correct |-> Str(<<"A">>)],
      [concept |-> Str(C_basics), correct |-> None]>>

\* the keys "0" .. str(n - 1) of an answer map for a batch of n questions
Keys(n) == {StrOfInt(i) : i \in 0..(n - 1)}

\* The caller (api_server.py, complete_full_assessment) passes the initial batch
\* followed by the adaptive batch as all_questions, and one answer map per batch
\* keyed by the question's position in its batch.  An assessment of k initial and
\* m adaptive questions drawn from a catalogue, every question answered A or B:
Assessment(catalogue, k, m) ==
    /\ n_initial = k
    /\ \E pick \in [1..(k + m) -> 1..Len(catalogue)] :
         all_questions = [i \in 1..(k + m) |-> catalogue[pick[i]]]
    /\ initial_answers \in [Keys(k) -> Letters]
    /\ adaptive_answers \in [Keys(m) -> Letters]

\* the letters as typed in either case
CasedLetters == {<<"A">>, <<"a">>}

\* a question with its correct option, and one whose record has no 'correct'
QuestionsSparse ==
    <<Question(C_basics, <<"A">>), [concept |-> Str(C_basics), correct |-> None]>>

\* An initial batch of k questions of which the user answered only some, typing
\* upper or lower case: the keys of the unanswered ones are absent from the map
SparseAssessment(catalogue, k) ==
    /\ n_initial = k
    /\ \E pick \in [1..k -> 1..Len(catalogue)] :
         all_questions = [i \in 1..k |-> catalogue[pick[i]]]
    /\ \E answered \in SUBSET Keys(k) : initial_answers \in [answered -> CasedLetters]
    /\ adaptive_answers = <<>>

RagIdle ==
    /\ chunk_paths = <<>>
    /\ all_chunks = NotLoaded
    /\ query = <<>>
    /\ top_k = 0
    /\ ranked = NoRanking
    /\ boosted = NoBoost
    /\ callers = <<>>

InitScorer ==
    /\ \/ \E m \in 0..MaxAdaptive : Assessment(QuestionsTwo, InitialBatch, m)
       \/ \E m \in 0..MaxLong : Assessment(QuestionsOne, InitialBatch, m)
       \/ \E k \in 0..MaxInitial, m \in 0..MaxAdaptive : Assessment(QuestionsTwo, k, m)
       \/ \E k \in 0..Min(MaxPathQuestions, InitialBatch) : Assessment(QuestionsFour, k, 0)
       \/ \E m \in 0..MaxAdaptive : Assessment(QuestionsPartial, InitialBatch, m)
       \/ SparseAssessment(QuestionsSparse, InitialBatch)
    /\ report = NoReport
    /\ RagIdle
    /\ SessionsIdle
    /\ UsersIdle

\* a scorer that uses up the answers it has counted
Analyze_ConsumingAnswers ==
    /\ report = NoReport
    /\ report' = analyze_full_assessment(initial_answers, adaptive_answers, all_questions)
    /\ initial_answers' = <<>>
    /\ UNCHANGED <<all_questions, n_initial, adaptive_answers>>
    /\ UNCHANGED <<ragVars, sessionVars, userVars>>

\* analysis = engine.analyze_full_assessment(user_id, topic, initial_answers,
\*                                           adaptive_answers, all_questions);
\* user_id and topic are not read by the method
Analyze ==
    /\ report = NoReport
    /\ report' = analyze_full_assessment(initial_answers, adaptive_answers, all_questions)
    /\ UNCHANGED <<all_questions, n_initial, initial_answers, adaptive_answers>>
    /\ UNCHANGED <<ragVars, sessionVars, userVars>>

NextScorer == Analyze

SpecScorer == InitScorer /\ [][NextScorer]_vars

(***************************************************************************)
(* Properties of the retrieval component.                                  *)
(***************************************************************************)
\* x put into a list ordered by score alone, behind every element whose score
\* is not lower (a stable sort by score, descending)
RECURSIVE InsertByScore(_, _)
InsertByScore(sorted, x) ==
    IF sorted = <<>> THEN <<x>>
    ELSE IF Head(sorted).score < x.score THEN <<x>> \o sorted
    ELSE <<Head(sorted)>> \o InsertByScore(Tail(sorted), x)

RECURSIVE StableByScore(_, _)
StableByScore(xs, n) ==
    IF n = 0 THEN <<>> ELSE InsertByScore(StableByScore(xs, n - 1), xs[n])

\* the positively scored chunks of the index, in corpus iteration order
Scored(q, idx) ==
    ScoredChunks(Lower(q), WordSet(Lower(q)), ImportantTerms(Lower(q), 1), CorpusOrder(idx, 1), 1)

\* C1: the result of find_relevant_chunks is the first top_k chunks of the
\* positively scored chunks sorted by score descending, chunks of equal score
\* staying in their corpus iteration order (source order in the index, then
\* position within the source).
C1_StableTieOrder ==
    ranked.done =>
        ranked.pairs =
            Pairs(Take(StableByScore(Scored(query, all_chunks.index),
                                     Len(Scored(query, all_chunks.index))), top_k))

\* a corpus of the shape {source name: [chunk string, ...]}
IsDictShape(c) ==
    /\ c.kind = "object"
    /\ \A i \in 1..Len(c.items) :
         /\ c.items[i].kind = "array"
         /\ \A j \in 1..Len(c.items[i].items) : c.items[i].items[j].kind = "string"

\* a corpus of the shape [{file, chunk}, ...]
IsRecordShape(c) ==
    /\ c.kind = "array"
    /\ \A i \in 1..Len(c.items) :
         /\ c.items[i].kind = "object"
         /\ HasKey(c.items[i], K_file) /\ GetItem(c.items[i], K_file).kind = "string"
         /\ HasKey(c.items[i], K_chunk) /\ GetItem(c.items[i], K_chunk).kind = "string"

Supported(c) == IsDictShape(c) \/ IsRecordShape(c)

\* C9: when one of the corpus files parses to something in neither supported
\* shape, load_all_chunks fails with CorpusFormatError.
C9_CorpusFormatError ==
    (all_chunks # NotLoaded /\ \E p \in 1..Len(chunk_paths) : ~Supported(chunk_paths[p]))
        => all_chunks.status = "CorpusFormatError"

RECURSIVE Flatten(_)
Flatten(ss) == IF ss = <<>> THEN <<>> ELSE Head(ss) \o Flatten(Tail(ss))

RECURSIVE Keep(_, _)
Keep(xs, f) ==
    IF xs = <<>> THEN <<>>
    ELSE (IF GetItem(Head(xs), K_file) = f THEN <<GetItem(Head(xs), K_chunk)>> ELSE <<>>)
         \o Keep(Tail(xs), f)

\* the chunks a supported corpus holds for source f, in document order
ChunksOf(c, f) ==
    IF c.kind = "object"
    THEN Flatten([i \in 1..Len(c.keys) |-> IF JStr(c.keys[i]) = f THEN c.items[i].items ELSE <<>>])
    ELSE Keep(c.items, f)

\* the sources a supported corpus names
SourcesOf(c) ==
    IF c.kind = "object" THEN {JStr(c.keys[i]) : i \in 1..Len(c.keys)}
    ELSE {GetItem(c.items[i], K_file) : i \in 1..Len(c.items)}

\* the number of chunks of a supported corpus
ChunkCount(c) ==
    IF c.kind = "object" THEN Len(Flatten([i \in 1..Len(c.items) |-> c.items[i].items]))
    ELSE Len(c.items)

RECURSIVE SumTo(_, _)
SumTo(f, n) == IF n = 0 THEN 0 ELSE f[n] + SumTo(f, n - 1)

\* C10: for corpora in the supported shapes, the index holds for every source
\* the concatenation, in call order of the corpora and in document order within
\* each corpus, of that source's chunks; nothing is dropped or de-duplicated.
C10_MergeConcatenates ==
    (all_chunks # NotLoaded /\ \A p \in 1..Len(chunk_paths) : Supported(chunk_paths[p]))
        => LET idx == all_chunks.index
               sources == UNION {SourcesOf(chunk_paths[p]) : p \in 1..Len(chunk_paths)}
           IN  /\ all_chunks.status = "ok"
               /\ {idx[i].fname : i \in 1..Len(idx)} = sources
               /\ \A i, j \in 1..Len(idx) : idx[i].fname = idx[j].fname => i = j
               /\ \A i \in 1..Len(idx) :
                    idx[i].chunks =
                        Flatten([p \in 1..Len(chunk_paths) |->
                                    ChunksOf(chunk_paths[p], idx[i].fname)])
               /\ SumTo([i \in 1..Len(idx) |-> Len(idx[i].chunks)], Len(idx))
                    = SumTo([p \in 1..Len(chunk_paths) |-> ChunkCount(chunk_paths[p])],
                            Len(chunk_paths))

\* C10 witness: two corpora of different shapes were merged, they share a
\* source, and that source got the same text from both.
C10_Witness ==
    /\ all_chunks.status = "ok"
    /\ Len(chunk_paths) = 2
    /\ IsDictShape(chunk_paths[1]) /\ IsRecordShape(chunk_paths[2])
    /\ \E i \in 1..Len(all_chunks.index) :
         LET cs == all_chunks.index[i].chunks IN
         /\ ChunksOf(chunk_paths[1], all_chunks.index[i].fname) # <<>>
         /\ ChunksOf(chunk_paths[2], all_chunks.index[i].fname) # <<>>
         /\ \E a, b \in 1..Len(cs) : a < b /\ cs[a] = cs[b]

(***************************************************************************)
(* Properties of the scorer.  A question is judged against the answer the  *)
(* user submitted for it in its own batch: question i (1-based) of         *)
(* all_questions is initial question i when i <= n_initial, and adaptive   *)
(* question i - n_initial otherwise.                                       *)
(***************************************************************************)
NumQuestions == Len(all_questions)

SubmittedAnswer(i) ==
    IF i <= n_initial THEN AnswerGet(initial_answers, StrOfInt(i - 1))
    ELSE AnswerGet(adaptive_answers, StrOfInt(i - 1 - n_initial))

AnsweredCorrectly(i) == SubmittedAnswer(i) = all_questions[i].correct

ConceptOf(i) ==
    IF all_questions[i].concept.none THEN S_unknown ELSE all_questions[i].concept.str

\* the concepts of the questions 1..n answered correctly (right = TRUE) or
\* wrongly (right = FALSE), in question order
RECURSIVE ConceptsAnswered(_, _)
ConceptsAnswered(right, n) ==
    IF n = 0 THEN <<>>
    ELSE ConceptsAnswered(right, n - 1)
         \o (IF AnsweredCorrectly(n) = right THEN <<ConceptOf(n)>> ELSE <<>>)

\* xs without the repetitions of an earlier element
RECURSIVE FirstOccurrences(_, _)
FirstOccurrences(xs, n) ==
    IF n = 0 THEN <<>>
    ELSE LET before == FirstOccurrences(xs, n - 1) IN
         IF \E i \in 1..(n - 1) : xs[i] = xs[n] THEN before ELSE Append(before, xs[n])

Analyzed == report.status # "none"

\* C2: with zero total questions analyze_full_assessment fails with
\* EmptyAssessmentError; it neither divides by zero nor returns a report.
C2_EmptyAssessmentError ==
    (Analyzed /\ NumQuestions = 0) => report.status = "EmptyAssessmentError"

\* C3: for a non-empty question list overall_score lies in [0, 10], is 10
\* exactly when every question was answered correctly and 0 exactly when every
\* question was answered wrongly.
C3_ScoreTotals ==
    (Analyzed /\ NumQuestions > 0) =>
        LET score == report.overall_score IN
        /\ report.status = "ok"
        /\ 0 <= score.num /\ score.num <= 10 * score.den
        /\ (score.num = 10 * score.den) <=> (\A i \in 1..NumQuestions : AnsweredCorrectly(i))
        /\ (score.num = 0) <=> (\A i \in 1..NumQuestions : ~AnsweredCorrectly(i))

\* C4: whatever the sizes of the two batches, every question is compared with
\* the answer submitted for it in its own batch and counts in total_correct, in
\* concept_performance and in the gap and strength lists.
C4_NoHardCodedBatchSizes ==
    (Analyzed /\ NumQuestions > 0) =>
        LET Of(c) == {i \in 1..NumQuestions : ConceptOf(i) = c}
            Right == {i \in 1..NumQuestions : AnsweredCorrectly(i)}
            perf == report.concept_performance
        IN  /\ report.status = "ok"
            /\ report.total_correct = Cardinality(Right)
            /\ DOMAIN perf = {ConceptOf(i) : i \in 1..NumQuestions}
            /\ \A c \in DOMAIN perf :
                 /\ perf[c].attempted = Cardinality(Of(c))
                 /\ perf[c].correct = Cardinality(Of(c) \cap Right)
            /\ \A i \in 1..NumQuestions :
                 IF AnsweredCorrectly(i)
                 THEN \E j \in 1..Len(report.strong_areas) : report.strong_areas[j] = ConceptOf(i)
                 ELSE \E j \in 1..Len(report.knowledge_gaps) :
                        report.knowledge_gaps[j] = ConceptOf(i)

\* C5: strong_areas is the list of the concepts with at least one correct
\* answer, each once, in the order of their first correct answer over the
\* initial then the adaptive batch.
C5_StrongAreasOnce ==
    report.status = "ok" =>
        report.strong_areas =
            FirstOccurrences(ConceptsAnswered(TRUE, NumQuestions),
                             Len(ConceptsAnswered(TRUE, NumQuestions)))

\* C6: knowledge_gaps is the list of the concepts with at least one wrong
\* answer, each once, in the order of their first wrong answer over the initial
\* then the adaptive batch.
C6_KnowledgeGapsOnce ==
    report.status = "ok" =>
        report.knowledge_gaps =
            FirstOccurrences(ConceptsAnswered(FALSE, NumQuestions),
                             Len(ConceptsAnswered(FALSE, NumQuestions)))

\* the concept name contains "fundamental", in any case
NamesFundamental(concept) == Contains(Lower(concept), S_fundamental)

PathRatio(concept) ==
    [num |-> report.concept_performance[concept].correct,
     den |-> report.concept_performance[concept].attempted]

\* xs ordered by ascending accuracy ratio, equal ratios keeping their order
RECURSIVE ByRatio(_, _)
ByRatio(xs, n) ==
    IF n = 0 THEN <<>>
    ELSE LET before == ByRatio(xs, n - 1)
             behind == {i \in 0..Len(before) :
                          \A j \in 1..i :
                             PathRatio(before[j]).num * PathRatio(xs[n]).den
                               <= PathRatio(xs[n]).num * PathRatio(before[j]).den}
             at == CHOOSE i \in behind : \A j \in behind : j <= i
         IN  SubSeq(before, 1, at) \o <<xs[n]>> \o SubSeq(before, at + 1, Len(before))

\* C7: in learning_path every gap whose name contains "fundamental" comes
\* before every gap whose name does not, and the fundamentals are in the order
\* the ordering by accuracy ratio gives them.
C7_FundamentalsFirst ==
    report.status = "ok" =>
        LET path == report.learning_path IN
        /\ \A i, j \in 1..Len(path) :
             (NamesFundamental(path[j]) /\ ~NamesFundamental(path[i])) => j < i
        /\ SelectSeq(path, NamesFundamental)
             = SelectSeq(ByRatio(report.knowledge_gaps, Len(report.knowledge_gaps)),
                         NamesFundamental)

\* C8: the gaps of learning_path that are not fundamentals are in ascending
\* order of accuracy ratio correct / attempted of concept_performance.
C8_AscendingAccuracy ==
    report.status = "ok" =>
        LET path == report.learning_path IN
        \A i, j \in 1..Len(path) :
            (i < j /\ ~NamesFundamental(path[i]) /\ ~NamesFundamental(path[j]))
                => PathRatio(path[i]).num * PathRatio(path[j]).den
                     <= PathRatio(path[j]).num * PathRatio(path[i]).den

\* C8 witness: the path starts with a fundamental, and two gaps that are not
\* fundamentals have different accuracy and are listed in the opposite order
\* of knowledge_gaps.
C8_Witness ==
    /\ report.status = "ok"
    /\ report.learning_path # <<>> /\ NamesFundamental(report.learning_path[1])
    /\ \E a, b \in 1..Len(report.knowledge_gaps) :
         LET x == report.knowledge_gaps[a]
             y == report.knowledge_gaps[b]
         IN  /\ a < b
             /\ ~NamesFundamental(x) /\ ~NamesFundamental(y)
             /\ PathRatio(y).num * PathRatio(x).den < PathRatio(x).num * PathRatio(y).den
             /\ \E i, j \in 1..Len(report.learning_path) :
                  i < j /\ report.learning_path[i] = y /\ report.learning_path[j] = x

(***************************************************************************)
(* The score of a chunk, stated from the query and the chunk text alone.   *)
(***************************************************************************)
\* the technical phrases, as (pattern, alternative) pairs of lines 37-43
TechnicalPhrases ==
    UNION {{<<p, a>> : a \in 1..Len(technical_patterns[p])} :
             p \in 1..Len(technical_patterns)}

\* phrase stands in s at position i as whole words
StandsAt(s, phrase, i) ==
    /\ i + Len(phrase) - 1 <= Len(s)
    /\ SubSeq(s, i, i + Len(phrase) - 1) = phrase
    /\ (i = 1 \/ ~IsWordChar(s[i - 1]))
    /\ (i + Len(phrase) - 1 = Len(s) \/ ~IsWordChar(s[i + Len(phrase)]))

\* the mentions of a technical phrase in the lower-cased query (one per place
\* the phrase stands at) whose phrase occurs in the lower-cased chunk
PhrasesFound(query_lower, chunk_lower) ==
    {m \in TechnicalPhrases \X (1..Len(query_lower)) :
        /\ StandsAt(query_lower, technical_patterns[m[1][1]][m[1][2]], m[2])
        /\ Contains(chunk_lower, technical_patterns[m[1][1]][m[1][2]])}

\* the generic keywords present in both texts
KeywordsShared(query_lower, chunk_lower) ==
    {c \in {key_concepts[i] : i \in 1..Len(key_concepts)} :
        Contains(query_lower, c) /\ Contains(chunk_lower, c)}

\* 200 * (shared tokens + 5 * phrases + 2 * keywords) * min(1, len / 200)
ExpectedScoreX200(q, chunk) ==
    LET query_lower == Lower(q)
        chunk_lower == Lower(chunk)
    IN  (Cardinality(WordSet(query_lower) \cap WordSet(chunk_lower))
           + 5 * Cardinality(PhrasesFound(query_lower, chunk_lower))
           + 2 * Cardinality(KeywordsShared(query_lower, chunk_lower)))
        * Min(Len(chunk), 200)

\* the places (source, chunk) of the index
Places(idx) == UNION {{<<i, j>> : j \in 1..Len(idx[i].chunks)} : i \in 1..Len(idx)}

ChunkAt(idx, ij) == idx[ij[1]].chunks[ij[2]].str

\* the places whose chunk has a strictly positive score for the query
PositivePlaces(q, idx) == {ij \in Places(idx) : ExpectedScoreX200(q, ChunkAt(idx, ij)) > 0}

\* C11: find_relevant_chunks returns at most top_k pairs, and the empty list
\* when top_k is 0.
C11_AtMostTopK ==
    ranked.done =>
        /\ Len(ranked.pairs) <= top_k
        /\ top_k = 0 => ranked.pairs = <<>>

\* C11 witness: more chunks score positive than top_k asks for, with top_k
\* positive, and exactly top_k pairs came back.
C11_Witness ==
    /\ ranked.done
    /\ top_k > 0
    /\ Cardinality(PositivePlaces(query, all_chunks.index)) > top_k
    /\ Len(ranked.pairs) = top_k

\* C12: find_relevant_chunks returns exactly min(top_k, P) pairs, P being the
\* number of chunks of the index with a strictly positive score; every returned
\* chunk has a strictly positive score; an empty index gives the empty list.
C12_ExactlyMinKPositive ==
    ranked.done =>
        /\ Len(ranked.pairs)
             = Min(top_k, Cardinality(PositivePlaces(query, all_chunks.index)))
        /\ \A i \in 1..Len(ranked.pairs) :
              ExpectedScoreX200(query, ranked.pairs[i][2]) > 0
        /\ all_chunks.index = <<>> => ranked.pairs = <<>>

\* C12 witness: the index holds chunks of positive score and a chunk of score
\* zero, top_k exceeds the number of positive ones, and all of them came back.
C12_Witness ==
    /\ ranked.done
    /\ LET P == Cardinality(PositivePlaces(query, all_chunks.index)) IN
       /\ 0 < P /\ P < top_k
       /\ P < Cardinality(Places(all_chunks.index))
       /\ Len(ranked.pairs) = P

\* C13: the score find_relevant_chunks gives a chunk is (number of distinct
\* word tokens shared by query and chunk + 5 * number of technical phrases of
\* the query found in the chunk text + 2 * number of generic keywords present
\* in both) * min(1, len(chunk) / 200); scores are in units of 1/200.
C13_ScoreFormula ==
    ranked.done =>
        /\ \A i \in 1..Len(ranked.scored) :
              ranked.scored[i].score = ExpectedScoreX200(query, ranked.scored[i].chunk)
        /\ \A ij \in Places(all_chunks.index) :
              (\A i \in 1..Len(ranked.scored) :
                  ranked.scored[i].chunk # ChunkAt(all_chunks.index, ij))
                => ExpectedScoreX200(query, ChunkAt(all_chunks.index, ij)) = 0

\* C13 witness: one chunk shorter than 200 characters scored on shared tokens
\* and a phrase, and one chunk of 200 characters or more scored on shared
\* tokens, a phrase and keywords.
C13_Witness ==
    /\ ranked.done
    /\ \E i, j \in 1..Len(ranked.scored) :
         LET a == ranked.scored[i].chunk
             b == ranked.scored[j].chunk
         IN  /\ Len(a) < 200
             /\ PhrasesFound(Lower(query), Lower(a)) # {}
             /\ Len(b) >= 200
             /\ PhrasesFound(Lower(query), Lower(b)) # {}
             /\ KeywordsShared(Lower(query), Lower(b)) # {}
             /\ WordSet(Lower(query)) \cap WordSet(Lower(b)) # {}
             /\ ranked.scored[j].score = 12 * 200

(***************************************************************************)
(* The rank and the score of one chunk before and after the query text was *)
(* appended to it.                                                         *)
(***************************************************************************)
\* the index the second ranking ran on
BoostedIndex ==
    Extended(all_chunks.index, boosted.source, boosted.chunk,
             (IF boosted.spaced THEN <<" ">> ELSE <<>>) \o query)

\* the (fname, chunk) pair at place (i, j) of the index
PairAt(idx, i, j) == <<idx[i].fname.str, idx[i].chunks[j].str>>

\* how many places of the index up to (i, j), in iteration order, hold the same
\* pair as (i, j)
OccurrenceNo(idx, i, j) ==
    Cardinality({ij \in Places(idx) :
                   /\ PairAt(idx, ij[1], ij[2]) = PairAt(idx, i, j)
                   /\ (ij[1] < i \/ (ij[1] = i /\ ij[2] <= j))})

\* the position in pairs of the n-th occurrence of pair; 0 when there is none
NthPosition(pairs, pair, n) ==
    LET at == {h \in 1..Len(pairs) :
                 /\ pairs[h] = pair
                 /\ Cardinality({g \in 1..h : pairs[g] = pair}) = n}
    IN  IF at = {} THEN 0 ELSE CHOOSE h \in at : TRUE

\* the rank of the chunk at place (i, j) in the returned list; 0: not returned
RankOf(pairs, idx, i, j) == NthPosition(pairs, PairAt(idx, i, j), OccurrenceNo(idx, i, j))

\* the score the ranking gave the chunk at place (i, j); 0: it was discarded
ScoreOf(scored, idx, i, j) ==
    LET at == {h \in 1..Len(scored) :
                 <<scored[h].fname, scored[h].chunk>> = PairAt(idx, i, j)}
    IN  IF at = {} THEN 0 ELSE scored[CHOOSE h \in at : TRUE].score

RankBefore == RankOf(ranked.pairs, all_chunks.index, boosted.source, boosted.chunk)

RankAfter == RankOf(boosted.pairs, BoostedIndex, boosted.source, boosted.chunk)

ScoreBefore == ScoreOf(ranked.scored, all_chunks.index, boosted.source, boosted.chunk)

ScoreAfter == ScoreOf(boosted.scored, BoostedIndex, boosted.source, boosted.chunk)

\* the extended chunk is ranked at least as well as before, and scored at least
\* as high
NotWorse ==
    /\ ScoreAfter >= ScoreBefore
    /\ RankBefore # 0 => (RankAfter # 0 /\ RankAfter <= RankBefore)

\* C14: appending the exact query text to a chunk (chunk + query) and ranking
\* again with the same query and top_k places that chunk at the same or a
\* better rank than before, and its score does not decrease.
C14_AppendQueryNotWorse ==
    (boosted.done /\ ~boosted.spaced) => NotWorse

\* C14, amended: appending a space and the exact query text to a chunk
\* (chunk + " " + query) and ranking again with the same query and top_k places
\* that chunk at the same or a better rank than before, and its score does not
\* decrease.
C14_AppendSeparatedQueryNotWorse ==
    (boosted.done /\ boosted.spaced) => NotWorse

\* C14 witness: a chunk returned at rank 2 or lower is, with a space and the
\* query appended, scored strictly higher and returned at a strictly better rank.
C14_Witness ==
    /\ boosted.done /\ boosted.spaced
    /\ RankBefore > 1
    /\ RankAfter # 0 /\ RankAfter < RankBefore
    /\ ScoreAfter > ScoreBefore

\* C15: a query without a word token (the empty query among them) gets the
\* empty list, whatever the index and top_k.
C15_NoTokensNoResults ==
    (ranked.done /\ WordSet(Lower(query)) = {}) => ranked.pairs = <<>>

\* C15 witness: a query of blanks and punctuation was ranked with a positive
\* top_k over an index that holds a chunk naming generic keywords, and nothing
\* came back.
C15_Witness ==
    /\ ranked.done
    /\ query # <<>> /\ WordSet(Lower(query)) = {}
    /\ top_k > 0
    /\ \E ij \in Places(all_chunks.index) :
          \E c \in 1..Len(key_concepts) :
             Contains(Lower(ChunkAt(all_chunks.index, ij)), key_concepts[c])
    /\ ranked.pairs = <<>>

(***************************************************************************)
(* concept_performance, recommended_lessons and questions that lack a key. *)
(***************************************************************************)
\* the questions asked about a concept, and those of them answered correctly
AskedAbout(concept) == {i \in 1..NumQuestions : ConceptOf(i) = concept}

RightAbout(concept) == {i \in AskedAbout(concept) : AnsweredCorrectly(i)}

\* the concepts probed in the initial batch and in the adaptive batch
ProbedInBoth ==
    {ConceptOf(i) : i \in 1..Min(n_initial, NumQuestions)}
        \cap {ConceptOf(i) : i \in (n_initial + 1)..NumQuestions}

\* C17: every concept_performance entry has attempted >= correct >= 0.
C17_AttemptedAtLeastCorrect ==
    report.status = "ok" =>
        \A c \in DOMAIN report.concept_performance :
            /\ report.concept_performance[c].attempted >= report.concept_performance[c].correct
            /\ report.concept_performance[c].correct >= 0

\* C17 witness: a concept counted in both loops with some answers right and
\* some wrong, next to a concept with no answer right.
C17_Witness ==
    /\ report.status = "ok"
    /\ NumQuestions > InitialBatch
    /\ \E c, d \in DOMAIN report.concept_performance :
         /\ report.concept_performance[c].attempted > report.concept_performance[c].correct
         /\ report.concept_performance[c].correct > 0
         /\ c \in ProbedInBoth
         /\ report.concept_performance[d].correct = 0

\* C18: a concept probed in both the initial and the adaptive batch has, in
\* concept_performance, attempted equal to the number of its questions in the
\* two batches together and correct equal to the number of them answered
\* correctly.
C18_AccumulatesOverBothBatches ==
    report.status = "ok" =>
        \A c \in ProbedInBoth :
            /\ c \in DOMAIN report.concept_performance
            /\ report.concept_performance[c].attempted = Cardinality(AskedAbout(c))
            /\ report.concept_performance[c].correct = Cardinality(RightAbout(c))

\* C19: recommended_lessons is "Fundamentals Review" first exactly when
\* overall_score < 3, then one "Deep Dive: {concept}" per entry of
\* knowledge_gaps in its order, then "Advanced Applications" last exactly when
\* overall_score > 7; a score of exactly 3 or exactly 7 adds neither.
C19_LessonRules ==
    report.status = "ok" =>
        LET lessons == report.recommended_lessons
            gaps == report.knowledge_gaps
            low == report.overall_score.num < 3 * report.overall_score.den
            high == report.overall_score.num > 7 * report.overall_score.den
            lead == IF low THEN 1 ELSE 0
        IN  /\ Len(lessons) = lead + Len(gaps) + (IF high THEN 1 ELSE 0)
            /\ low => lessons[1] = L_review
            /\ \A i \in 1..Len(gaps) : lessons[lead + i] = L_deep_dive \o gaps[i]
            /\ high => lessons[Len(lessons)] = L_advanced

\* C19 witness: a score of exactly 7 with a knowledge gap; the lessons are the
\* deep dives alone.
C19_Witness ==
    /\ report.status = "ok"
    /\ report.overall_score.num = 7 * report.overall_score.den
    /\ report.knowledge_gaps # <<>>
    /\ Len(report.recommended_lessons) = Len(report.knowledge_gaps)
    /\ report.recommended_lessons[1] = L_deep_dive \o report.knowledge_gaps[1]

\* the questions with 'unknown' written out as the concept of those lacking one
WithUnknown(questions) ==
    [i \in 1..Len(questions) |->
        [questions[i] EXCEPT !.concept = Str(ConceptOrUnknown(questions[i]))]]

LacksKey(question) == question.concept.none \/ question.correct.none

\* C20: questions lacking 'concept' or 'correct' never make the analysis fail;
\* a question lacking 'concept' is scored as a question of the concept
\* "unknown": the report is the one the same assessment gets with "unknown"
\* written out as its concept.
C20_UnknownLikeAnyConcept ==
    (Analyzed /\ \E i \in 1..NumQuestions : LacksKey(all_questions[i]))
        => /\ report.status = "ok"
           /\ report = analyze_full_assessment(initial_answers, adaptive_answers,
                                               WithUnknown(all_questions))

(***************************************************************************)
(* Answers as typed, unanswered questions, totals and the learning path.   *)
(***************************************************************************)
\* the user submitted an answer for question i
Answered(i) == ~SubmittedAnswer(i).none

\* the answer submitted for question i is, character for character, the
\* question's correct option
SubmittedTheCorrectOption(i) ==
    /\ Answered(i)
    /\ ~all_questions[i].correct.none
    /\ SubmittedAnswer(i).str = all_questions[i].correct.str

\* C21: a question counts as correct exactly when the submitted answer is
\* identical to its correct option ("a" does not match "A"): total_correct is
\* the number of such questions.
C21_ExactMatchCounts ==
    report.status = "ok" =>
        report.total_correct
            = Cardinality({i \in 1..NumQuestions : SubmittedTheCorrectOption(i)})

RECURSIVE SumOver(_, _, _)
SumOver(perf, field, concepts) ==
    IF concepts = {} THEN 0
    ELSE LET c == CHOOSE x \in concepts : TRUE
         IN  perf[c][field] + SumOver(perf, field, concepts \ {c})

\* C26: the attempted counts of concept_performance add up to the
\* total_questions overall_score is divided by, and the correct counts add up
\* to the total_correct it is computed from.
C26_SumsMatchTotals ==
    report.status = "ok" =>
        LET perf == report.concept_performance IN
        /\ SumOver(perf, "attempted", DOMAIN perf) = report.total_questions
        /\ report.overall_score.den = report.total_questions
        /\ SumOver(perf, "correct", DOMAIN perf) = report.total_correct
        /\ report.overall_score.num = 10 * report.total_correct

\* C27: a question the user submitted no answer for is never counted as
\* correct: no more questions count as correct, in total and per concept, than
\* were answered.
C27_UnansweredNeverCorrect ==
    report.status = "ok" =>
        /\ report.total_correct <= Cardinality({i \in 1..NumQuestions : Answered(i)})
        /\ \A c \in DOMAIN report.concept_performance :
              report.concept_performance[c].correct
                  <= Cardinality({i \in AskedAbout(c) : Answered(i)})

\* how often x occurs in the list xs
Occurrences(xs, x) == Cardinality({i \in 1..Len(xs) : xs[i] = x})

\* C28: learning_path is a permutation of knowledge_gaps: every concept occurs
\* in both as often.
C28_PathPermutesGaps ==
    report.status = "ok" =>
        /\ Len(report.learning_path) = Len(report.knowledge_gaps)
        /\ \A i \in 1..Len(report.knowledge_gaps) :
              Occurrences(report.learning_path, report.knowledge_gaps[i])
                  = Occurrences(report.knowledge_gaps, report.knowledge_gaps[i])

\* C28 witness: 'Fundamentals' is a gap, a gap that is no fundamental is listed
\* twice, and the path is in another order than knowledge_gaps.
C28_Witness ==
    /\ report.status = "ok"
    /\ \E i \in 1..Len(report.knowledge_gaps) :
          Lower(report.knowledge_gaps[i]) = S_fundamentals
    /\ \E i \in 1..Len(report.knowledge_gaps) :
          /\ ~NamesFundamental(report.knowledge_gaps[i])
          /\ Occurrences(report.knowledge_gaps, report.knowledge_gaps[i]) = 2
          /\ Occurrences(report.learning_path, report.knowledge_gaps[i]) = 2
    /\ report.learning_path # report.knowledge_gaps

(***************************************************************************)
(* start_learning_session, end_learning_session, get_active_sessions.      *)
(***************************************************************************)
\* an int or None
NoneInt == [none |-> TRUE, val |-> 0]

SomeInt(v) == [none |-> FALSE, val |-> v]

\* the seconds the clock moves on in one step of the model
TickSeconds == 45

DigitChars == <<"0", "1", "2", "3", "4", "5", "6", "7", "8", "9">>

\* '%02d'
TwoDigits(n) == <<DigitChars[(n \div 10) + 1], DigitChars[(n % 10) + 1]>>

\* datetime.now().strftime('%Y%m%d_%H%M%S') at t seconds into the hour
Stamp(t) ==
    <<"2", "0", "2", "5", "0", "1", "0", "1", "_", "0", "9">>
        \o TwoDigits(t \div 60) \o TwoDigits(t % 60)

\* line 2129: f"{user_id}_{topic_id}_{...}"
SessionId(user_id, topic_id, t) == user_id \o <<"_">> \o topic_id \o <<"_">> \o Stamp(t)

\* lines 2120-2143; the file is created with [] when it does not exist
start_learning_session(file, t, user_id, topic_id) ==
    LET sessions == IF file.exists THEN file.sessions ELSE <<>>
        session_id == SessionId(user_id, topic_id, t)
        session == [id |-> session_id, userId |-> user_id, topicId |-> topic_id,
                    startTime |-> t, endTime |-> NoneInt, duration |-> NoneInt,
                    active |-> TRUE]
    IN  [file |-> [exists |-> TRUE, sessions |-> Append(sessions, session)],
         ret |-> session_id]

\* lines 2145-2166: the first session with the id that is active is ended
end_learning_session(file, t, session_id) ==
    LET sessions == file.sessions
        hits == {i \in 1..Len(sessions) : sessions[i].id = session_id /\ sessions[i].active}
    IN  IF ~file.exists \/ hits = {} THEN [file |-> file, ret |-> 0]
        ELSE LET i == CHOOSE h \in hits : \A g \in hits : h <= g
                 duration == (t - sessions[i].startTime) \div 60
             IN  [file |-> [file EXCEPT !.sessions[i].endTime = SomeInt(t),
                                        !.sessions[i].duration = SomeInt(duration),
                                        !.sessions[i].active = FALSE],
                  ret |-> duration]

\* lines 2168-2175
get_active_sessions(file, user_id) ==
    IF ~file.exists THEN <<>>
    ELSE LET Mine(session) == session.userId = user_id /\ session.active
         IN  SelectSeq(file.sessions, Mine)

U_1 == <<"u", "1">>

U_2 == <<"u", "2">>

UserIds == {U_1, U_2}

Topic_ml == <<"m", "l">>

\* a session id no session has
Id_unknown == <<"n", "o", "n", "e">>

InitSessions ==
    /\ learning_sessions \in {NoSessionsFile, [exists |-> TRUE, sessions |-> <<>>]}
    /\ now = 0
    /\ session_call = NoCall
    /\ chunk_paths = <<>> /\ all_chunks = NotLoaded /\ query = <<>> /\ top_k = 0
    /\ ranked = NoRanking /\ boosted = NoBoost /\ callers = <<>>
    /\ ScorerIdle
    /\ UsersIdle

\* POST /api/session/start
StartSession ==
    /\ Len(learning_sessions.sessions) < MaxStarts
    /\ \E user_id \in UserIds :
         LET r == start_learning_session(learning_sessions, now, user_id, Topic_ml) IN
         /\ learning_sessions' = r.file
         /\ session_call' = [NoCall EXCEPT !.op = "start", !.arg = user_id, !.id = r.ret]
    /\ UNCHANGED <<now, ragVars, scorerVars, userVars>>

\* POST /api/session/end, with the id of a stored session or an id never given out
EndSession ==
    /\ \E session_id \in {learning_sessions.sessions[i].id :
                            i \in 1..Len(learning_sessions.sessions)} \cup {Id_unknown} :
         LET r == end_learning_session(learning_sessions, now, session_id) IN
         /\ learning_sessions' = r.file
         /\ session_call' = [NoCall EXCEPT !.op = "end", !.arg = session_id,
                                           !.minutes = r.ret]
    /\ UNCHANGED <<now, ragVars, scorerVars, userVars>>

\* GET /api/session/active/<user_id>
GetActiveSessions ==
    /\ \E user_id \in UserIds :
         session_call' = [NoCall EXCEPT !.op = "active", !.arg = user_id,
                             !.active = get_active_sessions(learning_sessions, user_id)]
    /\ UNCHANGED <<learning_sessions, now, ragVars, scorerVars, userVars>>

\* time passes
Tick ==
    /\ now < MaxTicks * TickSeconds
    /\ now' = now + TickSeconds
    /\ UNCHANGED <<learning_sessions, session_call, ragVars, scorerVars, userVars>>

NextSessions == StartSession \/ EndSession \/ GetActiveSessions \/ Tick

SpecSessions == InitSessions /\ [][NextSessions]_vars

\* some stored session with this id was ended
WasEnded(session_id) ==
    \E i \in 1..Len(learning_sessions.sessions) :
        /\ learning_sessions.sessions[i].id = session_id
        /\ ~learning_sessions.sessions[i].active

\* C24: once a session was started and then ended with the id
\* start_learning_session returned, get_active_sessions reports no active
\* session with that id, also when two sessions were started for the same user
\* and topic within one second.
C24_EndedNotReportedActive ==
    session_call.op = "active" =>
        \A i \in 1..Len(session_call.active) : ~WasEnded(session_call.active[i].id)

\* a call of end_learning_session has just returned
EndReturned ==
    /\ session_call'.op = "end"
    /\ session_call' # session_call \/ learning_sessions' # learning_sessions

\* C29: end_learning_session called with an unknown id, or with the id of a
\* session that is already inactive, returns 0 and leaves the stored sessions
\* unchanged; a session that is inactive keeps its record (endTime, duration,
\* active = False) from then on.
C29_EndingTwiceChangesNothing ==
    [][/\ (EndReturned /\ (WasEnded(session_call'.arg)
                            \/ \A i \in 1..Len(learning_sessions.sessions) :
                                  learning_sessions.sessions[i].id # session_call'.arg))
            => (session_call'.minutes = 0 /\ learning_sessions' = learning_sessions)
       /\ \A i \in 1..Len(learning_sessions.sessions) :
            ~learning_sessions.sessions[i].active
                => /\ i <= Len(learning_sessions'.sessions)
                   /\ learning_sessions'.sessions[i] = learning_sessions.sessions[i]]_vars

\* C22: a call of analyze_full_assessment changes nothing but the report it
\* returns: the question list and both answer maps are as before, no stored
\* sessions or users are written, and the report is the one a second call on
\* the inputs as they are after the call returns.
C22_AnalyzeOnlyReturnsReport ==
    [][report' # report =>
          /\ UNCHANGED <<all_questions, n_initial, initial_answers, adaptive_answers>>
          /\ UNCHANGED <<sessionVars, userVars, ragVars>>
          /\ report' = analyze_full_assessment(initial_answers', adaptive_answers',
                                               all_questions')]_vars

C22_Witness ==
    /\ report.status = "ok"
    /\ Len(all_questions) > InitialBatch
    /\ DOMAIN initial_answers # {}
    /\ DOMAIN adaptive_answers # {}
    /\ report.overall_score.num > 0

(***************************************************************************)
(* Two callers of find_relevant_chunks on one shared index, one chunk of   *)
(* the scoring loop per step.                                              *)
(***************************************************************************)
\* a caller that is not in a call
NoCaller == [pc |-> "idle", query |-> <<>>, top_k |-> 0, i |-> 1,
             scored_chunks |-> <<>>, result |-> <<>>]

ConcQueries == <<Q_neural, Q_mixed>>

\* a module-level list that every call appends to
Accumulate_Shared(cs, c, entry) ==
    [d \in 1..Len(cs) |-> [cs[d] EXCEPT !.scored_chunks = Append(@, entry)]]

\* line 77: scored_chunks is a local of the call
Accumulate(cs, c, entry) ==
    [cs EXCEPT ![c].scored_chunks = Append(@, entry)]

InitConc ==
    /\ \E n \in 1..MaxSharedFiles :
         \E pick \in [1..n -> 1..Len(BoostCorpora)] :
            chunk_paths = [i \in 1..n |-> BoostCorpora[pick[i]]]
    /\ all_chunks = NotLoaded
    /\ query = <<>>
    /\ top_k = 0
    /\ ranked = NoRanking
    /\ boosted = NoBoost
    /\ callers = <<NoCaller, NoCaller>>
    /\ ScorerIdle
    /\ SessionsIdle
    /\ UsersIdle

\* lines 29-49: the call is entered, its locals are set up
BeginRanking(c) ==
    /\ all_chunks.status = "ok"
    /\ WellTyped(all_chunks.index)
    /\ callers[c].pc = "idle"
    /\ \E q \in 1..Len(ConcQueries), k \in {1, MaxTopK} :
         callers' = [callers EXCEPT ![c] = [NoCaller EXCEPT !.pc = "scoring",
                                                           !.query = ConcQueries[q],
                                                           !.top_k = k]]
    /\ UNCHANGED <<chunk_paths, all_chunks, query, top_k, ranked, boosted>>
    /\ UNCHANGED <<scorerVars, sessionVars, userVars>>

\* lines 50-77: one turn of the loop over the chunks of the shared index
ScoreChunk(c) ==
    LET pairs == CorpusOrder(all_chunks.index, 1)
        me == callers[c]
        query_lower == Lower(me.query)
    IN  /\ me.pc = "scoring"
        /\ me.i <= Len(pairs)
        /\ LET sc == ScoreX200(query_lower, WordSet(query_lower),
                               ImportantTerms(query_lower, 1), pairs[me.i].chunk)
               entry == [score |-> sc, fname |-> pairs[me.i].fname,
                         chunk |-> pairs[me.i].chunk]
               next == [callers EXCEPT ![c].i = @ + 1]
           IN  callers' = IF sc > 0 THEN Accumulate(next, c, entry) ELSE next
        /\ UNCHANGED <<chunk_paths, all_chunks, query, top_k, ranked, boosted>>
        /\ UNCHANGED <<scorerVars, sessionVars, userVars>>

\* lines 79-81: sort and cut
FinishRanking(c) ==
    LET me == callers[c] IN
    /\ me.pc = "scoring"
    /\ me.i > Len(CorpusOrder(all_chunks.index, 1))
    /\ callers' = [callers EXCEPT
                     ![c].pc = "done",
                     ![c].result = Pairs(Take(SortReverse(me.scored_chunks,
                                                          Len(me.scored_chunks)),
                                              me.top_k))]
    /\ UNCHANGED <<chunk_paths, all_chunks, query, top_k, ranked, boosted>>
    /\ UNCHANGED <<scorerVars, sessionVars, userVars>>

NextConc ==
    \/ Load
    \/ \E c \in 1..Len(callers) : BeginRanking(c)
    \/ \E c \in 1..Len(callers) : ScoreChunk(c)
    \/ \E c \in 1..Len(callers) : FinishRanking(c)

SpecConc == InitConc /\ [][NextConc]_vars

\* C23: in every interleaving of the ranking calls on one shared index, the
\* loaded index stays as it is and a call that returns returns what
\* find_relevant_chunks returns for its query and top_k on that index alone.
C23_ConcurrentRankingIsolated ==
    [][all_chunks.status = "ok" =>
          /\ all_chunks' = all_chunks
          /\ \A c \in 1..Len(callers') :
                (callers'[c].pc = "done" /\ callers[c].pc # "done") =>
                    callers'[c].result =
                        find_relevant_chunks(callers'[c].query, all_chunks.index,
                                             callers'[c].top_k).pairs]_vars

\* both calls were in their loops at the same time and both returned chunks
C23_Witness ==
    /\ callers # <<>>
    /\ callers[1].pc = "done" /\ callers[1].result # <<>>
    /\ callers[2].pc = "scoring" /\ callers[2].i > 1 /\ callers[2].scored_chunks # <<>>
    /\ Len(callers[1].scored_chunks) > Len(callers[1].result)
    /\ callers[1].query # callers[2].query

(***************************************************************************)
(* create_user, save_data and load_data on the users file, called by two   *)
(* request threads.  A file is a directory entry (target, tmp) naming an   *)
(* inode, 0 when the entry does not exist; content holds the inodes.  A    *)
(* users dictionary is a set of <<key, name>> pairs.                       *)
(***************************************************************************)
\* an inode after open(..., 'w') and before the write reaches it
EmptyFile == [written |-> FALSE, data |-> {}]

\* f"user_{next_id}"
UserKey(n) == <<"u", "s", "e", "r", "_">> \o <<DigitChars[n + 1]>>

\* the names the two callers ask for
Names == <<<<"a", "n", "n">>, <<"b", "o", "b">>>>

NoProc == [pc |-> "idle", users |-> {}, user_id |-> <<>>, data |-> {}, fd |-> 0,
           saved |-> FALSE, healing |-> FALSE, ret |-> None]

\* what a reader of the users file gets: exists, the text parses, the dictionary
ReadTarget(fs) ==
    IF fs.target = 0 THEN [exists |-> FALSE, written |-> FALSE, data |-> {}]
    ELSE [exists |-> TRUE, written |-> fs.content[fs.target].written,
          data |-> fs.content[fs.target].data]

\* os.remove(temp_file) when os.path.exists(temp_file)
RemoveTemp(fs) == [fs EXCEPT !.tmp = 0]

InitUsers ==
    /\ \E n \in 0..MaxStoredUsers :
         /\ users_before = {<<UserKey(i), <<"o", "l", "d">>>> : i \in 1..n}
         /\ files \in {[target |-> 1, tmp |-> 0,
                        content |-> <<[written |-> TRUE, data |-> users_before]>>]}
                      \cup (IF n = 0 THEN {NoFiles} ELSE {})
    /\ procs = <<NoProc, NoProc>>
    /\ chunk_paths = <<>> /\ all_chunks = NotLoaded /\ query = <<>> /\ top_k = 0
    /\ ranked = NoRanking /\ boosted = NoBoost /\ callers = <<>>
    /\ ScorerIdle
    /\ SessionsIdle

\* lines 255-299: read the users file, pick the first free id, add the user
ReadUsers(p) ==
    /\ procs[p].pc = "idle"
    /\ LET users == ReadTarget(files).data
           Taken(n) == \E e \in users : e[1] = UserKey(n)
           next_id == CHOOSE n \in 1..(Cardinality(users) + 1) :
                          ~Taken(n) /\ \A m \in 1..(n - 1) : Taken(m)
           user_id == UserKey(next_id)
       IN  procs' = [procs EXCEPT ![p] = [NoProc EXCEPT
                        !.pc = "open", !.users = users, !.user_id = user_id,
                        !.data = users \cup {<<user_id, Names[p]>>}]]
    /\ UNCHANGED <<files, users_before, ragVars, scorerVars, sessionVars>>

\* line 205: open(temp_file, 'w') creates the file or truncates the one there
OpenTemp(p) ==
    /\ procs[p].pc = "open"
    /\ IF files.tmp = 0
       THEN /\ files' = [files EXCEPT !.tmp = Len(files.content) + 1,
                                      !.content = Append(@, EmptyFile)]
            /\ procs' = [procs EXCEPT ![p].pc = "write",
                                      ![p].fd = Len(files.content) + 1]
       ELSE /\ files' = [files EXCEPT !.content[files.tmp] = EmptyFile]
            /\ procs' = [procs EXCEPT ![p].pc = "write", ![p].fd = files.tmp]
    /\ UNCHANGED <<users_before, ragVars, scorerVars, sessionVars>>

\* lines 205-206: the text is written to the open file and the file closed
WriteTemp(p) ==
    /\ procs[p].pc = "write"
    /\ files' = [files EXCEPT !.content[procs[p].fd] =
                                  [written |-> TRUE, data |-> procs[p].data]]
    /\ procs' = [procs EXCEPT ![p].pc = "verify"]
    /\ UNCHANGED <<users_before, ragVars, scorerVars, sessionVars>>

\* lines 206, 233-241: the write raises, the temp file is removed, False
WriteFails(p) ==
    /\ procs[p].pc = "write"
    /\ files' = RemoveTemp(files)
    /\ procs' = [procs EXCEPT ![p].pc = "saved", ![p].saved = FALSE]
    /\ UNCHANGED <<users_before, ragVars, scorerVars, sessionVars>>

\* lines 209-216: the temp file is read back; on an error it is removed, False
VerifyTemp(p) ==
    /\ procs[p].pc = "verify"
    /\ IF files.tmp # 0 /\ files.content[files.tmp].written
       THEN /\ procs' = [procs EXCEPT ![p].pc = "rename"]
            /\ UNCHANGED files
       ELSE /\ procs' = [procs EXCEPT ![p].pc = "saved", ![p].saved = FALSE]
            /\ files' = RemoveTemp(files)
    /\ UNCHANGED <<users_before, ragVars, scorerVars, sessionVars>>

\* lines 219-231: os.replace / os.rename of the temp file onto the target
RenameTemp(p) ==
    /\ procs[p].pc = "rename"
    /\ IF files.tmp # 0
       THEN /\ files' = [files EXCEPT !.target = files.tmp, !.tmp = 0]
            /\ procs' = [procs EXCEPT ![p].pc = "saved", ![p].saved = TRUE]
       ELSE /\ procs' = [procs EXCEPT ![p].pc = "saved", ![p].saved = FALSE]
            /\ UNCHANGED files
    /\ UNCHANGED <<users_before, ragVars, scorerVars, sessionVars>>

\* lines 307, 321-323 after create_user's save; lines 173-174, 183-184 after
\* the save of load_data, whose {} never holds the new user (lines 311-316)
AfterSave(p) ==
    /\ procs[p].pc = "saved"
    /\ procs' = [procs EXCEPT ![p].pc = IF procs[p].saved /\ ~procs[p].healing
                                        THEN "load" ELSE "done"]
    /\ UNCHANGED <<files, users_before, ragVars, scorerVars, sessionVars>>

\* lines 309-316 with load_data, lines 166-188: a missing or empty users file
\* is reset to {} by save_data
LoadBack(p) ==
    /\ procs[p].pc = "load"
    /\ LET read == ReadTarget(files) IN
       IF read.exists /\ read.written
       THEN procs' = [procs EXCEPT ![p].pc = "done",
                         ![p].ret = IF \E e \in read.data : e[1] = procs[p].user_id
                                    THEN Str(procs[p].user_id) ELSE None]
       ELSE procs' = [procs EXCEPT ![p].pc = "open", ![p].healing = TRUE,
                                   ![p].data = {}]
    /\ UNCHANGED <<files, users_before, ragVars, scorerVars, sessionVars>>

NextUsers ==
    \/ \E p \in 1..Len(procs) : ReadUsers(p)
    \/ \E p \in 1..Len(procs) : OpenTemp(p)
    \/ \E p \in 1..Len(procs) : WriteTemp(p)
    \/ \E p \in 1..Len(procs) : WriteFails(p)
    \/ \E p \in 1..Len(procs) : VerifyTemp(p)
    \/ \E p \in 1..Len(procs) : RenameTemp(p)
    \/ \E p \in 1..Len(procs) : AfterSave(p)
    \/ \E p \in 1..Len(procs) : LoadBack(p)

SpecUsers == InitUsers /\ [][NextUsers]_vars

\* C25: a call of save_data that returns True leaves the target holding
\* exactly its data, a call that returns False leaves a target that does not
\* hold its data, and the target never holds a partially written text.
C25_SaveIsAtomic ==
    [][/\ files'.target # 0 => files'.content[files'.target].written
       /\ \A p \in 1..Len(procs) :
            (procs'[p].pc = "saved" /\ procs[p].pc # "saved") =>
                IF procs'[p].saved
                THEN ReadTarget(files').data = procs[p].data
                ELSE ~(ReadTarget(files').exists
                       /\ ReadTarget(files').data = procs[p].data
                       /\ ~procs[p].healing)]_vars

\* C30: a create_user call that returns an id returns one the users file did
\* not hold before, leaves every earlier user stored unchanged, and leaves its
\* own user retrievable; two calls that return ids return different ids.
C30_CreateNeverOverwrites ==
    procs # <<>> =>
        /\ \A p \in 1..Len(procs) :
             (procs[p].pc = "done" /\ ~procs[p].ret.none) =>
                /\ \A e \in users_before : e[1] # procs[p].ret.str
                /\ users_before \subseteq ReadTarget(files).data
                /\ <<procs[p].ret.str, Names[p]>> \in ReadTarget(files).data
        /\ \A p, r \in 1..Len(procs) :
             (p # r /\ procs[p].pc = "done" /\ procs[r].pc = "done"
                    /\ ~procs[p].ret.none /\ ~procs[r].ret.none)
                => procs[p].ret.str # procs[r].ret.str

====
